---- MODULE Spec2Model ----
(***************************************************************************)
(* Model of BrainDrive-Scout: the review log writer, the review            *)
(* orchestrator, the analyzer's response parser, the content fetcher and   *)
(* the project context loader.                                             *)
(*                                                                         *)
(* Text is a sequence of tokens (strings).  A token is an atomic piece of  *)
(* text; the pieces the code writes ("## ", "\n", ...) are tokens of their *)
(* own, so that a substring test of the code is a contiguous-subsequence   *)
(* test on tokens.                                                         *)
(***************************************************************************)
EXTENDS Integers, Sequences, FiniteSets, TLC

VARIABLES
    logs,        \* logs_dir: project name -> [exists, text] (the file <name>.md)
    now,         \* the wall clock read by datetime.now(), in half days
    logged,      \* history: the (project, day) pairs of completed log_review calls
    calls,       \* history: number of log_review calls made so far
    response_text,  \* analyzer: message.content[0].text, the service's answer
    analysis_out,   \* analyzer: None before analyze ran, then what analyze did
    url,            \* fetcher: the URL string given to detect_content_type
    detected,       \* fetcher: NoType, then the ContentType detect_content_type returned
    manual_type,    \* review_url: NoType, then the content_type given to manual content
    served_listing, \* document store: its answer to the last directory listing
    served_files,   \* document store: its answers for the documents last asked for
    list_out,       \* context loader: what the last list_projects call did
    ctx_out,        \* context loader: what the last load_project_context call did
    combined,       \* analyzer: None, then the combined context put in the prompt
    served_page,    \* fetcher: the web server's answer to the page request
    fetch_out,      \* fetcher: None, then what the fetch of the page did
    request,        \* review_url: the ReviewRequest {url, project, content}
    pc,             \* review_url: the await the request is suspended at
    rcontent,       \* review_url: content, None or the FetchedContent in use
    fetched,        \* history: what fetcher.fetch returned or raised
    projects,       \* _review_all_projects: the list loader.list_projects returned
    idx,            \* _review_all_projects: position of the for loop in projects
    project_context,\* the ProjectContext of the project at hand
    ranalysis,      \* review_url: analysis, the AnalysisResult of the project at hand
    results,        \* _review_all_projects: results
    response,       \* None, then the HTTP response of the request
    trace,          \* history: the loader, analyzer and logger calls made, in order
    rpc,            \* concurrent requests: request -> the await it is suspended at
    rverdict,       \* concurrent requests: request -> None or its AnalysisResult
    rorder          \* history: the log_review calls that returned, in order

logVars == <<logs, now, logged, calls>>
anVars == <<response_text, analysis_out>>
detVars == <<url, detected, manual_type>>
ctxVars == <<served_listing, served_files, list_out, ctx_out, combined>>
fetVars == <<served_page, fetch_out>>
vars == <<logs, now, logged, calls, response_text, analysis_out, url, detected,
          manual_type,
          served_listing, served_files, list_out, ctx_out, combined, served_page,
          fetch_out,
          request, pc, rcontent, fetched, projects, idx, project_context, ranalysis,
          results, response, trace, rpc, rverdict, rorder>>
conVars == <<rpc, rverdict, rorder>>
revVars == <<request, pc, rcontent, fetched, projects, idx, project_context, ranalysis,
             results, response, trace>>

\* Python's None, where a record is expected and where a string is expected
None == [none |-> TRUE]
NoType == "<none>"

\* ------------------------------------------------------------------ bounds
MaxNow == 3
MaxCalls == 3
MaxRespLen == 4
MaxHostLen == 3
MaxItems == 2
MaxTextLen == 2
MaxProjects == 3
MaxRequests == 2

\* ------------------------------------------------------------- text helpers
NL == "\n"

RECURSIVE Join(_, _)
\* sep.join(parts): parts is a sequence of texts
Join(parts, sep) ==
    IF parts = <<>> THEN <<>>
    ELSE IF Len(parts) = 1 THEN parts[1]
    ELSE parts[1] \o sep \o Join(Tail(parts), sep)

\* needle in hay (Python's substring operator)
Contains(needle, hay) ==
    \E i \in 1..(Len(hay) - Len(needle) + 1) :
        SubSeq(hay, i, i + Len(needle) - 1) = needle

RECURSIVE Split(_, _)
\* text.split(sep) for a one-token separator
Split(text, sep) ==
    IF \A i \in 1..Len(text) : text[i] # sep THEN <<text>>
    ELSE LET k == CHOOSE i \in 1..Len(text) :
                      text[i] = sep /\ \A j \in 1..(i-1) : text[j] # sep
         IN  <<SubSeq(text, 1, k-1)>> \o Split(SubSeq(text, k+1, Len(text)), sep)

\* --------------------------------------------------------------- the clock
Day(t) == (t \div 2) + 1
\* now.strftime("%Y-%m-%d")
DateStr(t) == <<"2024-01-01", "2024-01-02", "2024-01-03", "2024-01-04">>[Day(t)]
\* now.strftime("%H:%M")
TimeStr(t) == IF t % 2 = 0 THEN "09:00" ELSE "21:00"
Days == 1..(Day(MaxNow) + 1)

\* ------------------------------------------------------------ the log writer
Projects == <<"p1", "p2", "p3", "p4">>
ProjectNames == {Projects[i] : i \in 1..Len(Projects)}

NoFile == [exists |-> FALSE, text |-> <<>>]

\* f"## {date_str}" in existing_content
needs_date_header(file, t) ==
    IF file.exists
    THEN ~Contains(<<"## ", DateStr(t)>>, file.text)
    ELSE TRUE

\* the bullet lines of a list of insights or suggestions
bullets(items) == [i \in 1..Len(items) |-> <<"  - ">> \o items[i]]

entry_parts(file, project_name, t, content, analysis) ==
    (IF ~file.exists THEN << <<"# Research Log: ", project_name, NL>> >> ELSE <<>>)
    \o (IF needs_date_header(file, t)
        THEN << <<NL, "## ", DateStr(t), NL>> >> ELSE <<>>)
    \o << <<NL, "### [">> \o content.title \o <<"](">> \o content.url \o <<")">> >>
    \o << <<"*Reviewed at ", TimeStr(t), " | Type: ", content.content_type, "*", NL>> >>
    \o << <<"- **Relevance**: ", analysis.relevance>> >>
    \o (IF analysis.insights # <<>>
        THEN << <<"- **Key insights**:">> >> \o bullets(analysis.insights) ELSE <<>>)
    \o (IF analysis.suggestions # <<>>
        THEN << <<"- **Suggestions**:">> >> \o bullets(analysis.suggestions) ELSE <<>>)
    \o << <<>> >>

\* log_review with the file opened for writing instead of appending
log_review_rewrites(file, project_name, t, content, analysis) ==
    [exists |-> TRUE,
     text   |-> Join(entry_parts(file, project_name, t, content, analysis), <<NL>>)]

\* ResearchLogger.log_review: the file after the call
log_review(file, project_name, t, content, analysis) ==
    [exists |-> TRUE,
     text   |-> file.text
                \o Join(entry_parts(file, project_name, t, content, analysis), <<NL>>)]

\* ------------------------------------------------- inputs of the log writer
\* review texts: a plain one, and one that quotes a date heading
PlainText == <<"t1">>
QuoteText == <<"see ", "## ", "2024-01-02">>
LogContents == { [title |-> PlainText, url |-> <<"http://u">>,
                  content_type |-> "article", content |-> <<"body">>] }
LogAnalyses ==
    { [relevance |-> "high", insights |-> << PlainText >>, suggestions |-> << PlainText >>],
      [relevance |-> "medium", insights |-> << QuoteText >>, suggestions |-> <<>>],
      [relevance |-> "low", insights |-> <<>>, suggestions |-> <<>>] }
LogProjects == {"p1", "p2"}

\* ---------------------------------------------------------------- SpecLog
\* the parts of the state a specification does not use stay as constructed
LogIdle ==
    /\ logs = [p \in ProjectNames |-> NoFile]
    /\ now = 0
    /\ logged = {}
    /\ calls = 0
AnIdle == response_text = <<>> /\ analysis_out = None
DetIdle == url = <<>> /\ detected = NoType /\ manual_type = NoType
CtxIdle ==
    /\ served_listing = None
    /\ served_files = <<>>
    /\ list_out = None
    /\ ctx_out = None
    /\ combined = [none |-> TRUE, text |-> <<>>]
FetIdle == served_page = None /\ fetch_out = None
RevIdle ==
    /\ request = None /\ pc = "idle" /\ rcontent = None /\ fetched = None
    /\ projects = <<>> /\ idx = 0 /\ project_context = None /\ ranalysis = None
    /\ results = <<>> /\ response = None /\ trace = <<>>
ConIdle == rpc = <<>> /\ rverdict = <<>> /\ rorder = <<>>

InitLog == LogIdle /\ ConIdle /\ AnIdle /\ DetIdle /\ CtxIdle /\ FetIdle /\ RevIdle

\* one call of log_review that returns
LogReview(p, c, a) ==
    /\ calls < MaxCalls
    /\ logs' = [logs EXCEPT ![p] = log_review(logs[p], p, now, c, a)]
    /\ logged' = logged \cup {<<p, Day(now)>>}
    /\ calls' = calls + 1
    /\ UNCHANGED <<conVars, now, anVars, detVars, ctxVars, fetVars, revVars>>

\* one call of log_review that raises before the write (unreadable file)
LogReviewRaises(p) ==
    /\ calls < MaxCalls
    /\ calls' = calls + 1
    /\ UNCHANGED <<conVars, logs, now, logged, anVars, detVars, ctxVars, fetVars, revVars>>

\* time passes
Tick ==
    /\ now < MaxNow
    /\ now' = now + 1
    /\ UNCHANGED <<conVars, logs, logged, calls, anVars, detVars, ctxVars, fetVars, revVars>>

NextLog ==
    \/ \E p \in LogProjects, c \in LogContents, a \in LogAnalyses : LogReview(p, c, a)
    \/ \E p \in LogProjects : LogReviewRaises(p)
    \/ Tick

SpecLog == InitLog /\ [][NextLog]_vars

\* ------------------------------------------------------------------- C1
Lines(text) == Split(text, NL)
\* number of date-header lines of day d in a file
HeaderLines(text, d) ==
    Cardinality({i \in 1..Len(Lines(text)) :
                    Lines(text)[i] = <<"## ", DateStr(2 * (d - 1))>>})

\* C1: after any sequence of log_review calls the file of a project holds
\* exactly one date-header line for each calendar day on which a review of
\* that project was logged (whatever the review texts).
C1_OneHeaderPerLoggedDay ==
    \A p \in ProjectNames : \A d \in Days :
        <<p, d>> \in logged => HeaderLines(logs[p].text, d) = 1

\* ------------------------------------------------------------ the analyzer
\* Tokens of a response text.  A member token is one "key": value pair of a
\* JSON object; the members after the first carry their leading comma.
REL_HIGH == "\"relevance\": \"high\""
REL_MEDIUM == "\"relevance\": \"medium\""
REL_LOW == "\"relevance\": \"low\""
REL_BAD == "\"relevance\": \"urgent\""
INS == ", \"insights\": [\"i1\"]"
SUG == ", \"suggestions\": [\"s1\"]"
FirstMembers == {REL_HIGH, REL_MEDIUM, REL_LOW, REL_BAD}
RestMembers == {INS, SUG}

Absent == "<absent>"
JSONDecodeError == [ok |-> FALSE]
\* the relevance string a member token carries
RelValue(tok) ==
    IF tok = REL_HIGH THEN "high"
    ELSE IF tok = REL_MEDIUM THEN "medium"
    ELSE IF tok = REL_LOW THEN "low"
    ELSE "urgent"

\* the dict json.loads builds from the members of an object
Dict(members) ==
    [ok |-> TRUE, kind |-> "dict",
     relevance   |-> IF members = <<>> THEN Absent ELSE RelValue(members[1]),
     insights    |-> IF \E i \in 2..Len(members) : members[i] = INS
                     THEN << <<"i1">> >> ELSE Absent,
     suggestions |-> IF \E i \in 2..Len(members) : members[i] = SUG
                     THEN << <<"s1">> >> ELSE Absent]
Scalar(k) == [ok |-> TRUE, kind |-> k, relevance |-> Absent,
              insights |-> Absent, suggestions |-> Absent]

RECURSIVE json_loads(_)
\* json.loads(s): the whole of s must be one JSON value
json_loads(s) ==
    LET n == Len(s)
        inner == SubSeq(s, 2, n - 1)
    IN  IF s = <<"null">> THEN Scalar("NoneType")
        ELSE IF s = <<"7">> THEN Scalar("int")
        ELSE IF n >= 2 /\ s[1] = "[" /\ s[n] = "]"
        THEN IF inner = <<>> \/ json_loads(inner).ok
             THEN Scalar("list") ELSE JSONDecodeError
        ELSE IF n >= 2 /\ s[1] = "{" /\ s[n] = "}"
        THEN IF inner = <<>>
                \/ (/\ inner[1] \in FirstMembers
                    /\ \A i \in 2..Len(inner) : inner[i] \in RestMembers)
             THEN Dict(inner) ELSE JSONDecodeError
        ELSE JSONDecodeError

\* re.search(r"\{.*\}", response_text, re.DOTALL): the span from the first
\* opening brace to the last closing brace after it, or None
json_match(text) ==
    LET opens  == {i \in 1..Len(text) : text[i] = "{"}
        closes == {i \in 1..Len(text) : text[i] = "}"}
    IN  IF \E a \in opens, b \in closes : a < b
        THEN LET a == CHOOSE i \in opens : \A j \in opens : i <= j
                 b == CHOOSE i \in closes : \A j \in closes : j <= i
             IN  [matched |-> TRUE, group |-> SubSeq(text, a, b)]
        ELSE [matched |-> FALSE, group |-> <<>>]

RelevanceLevels == {"high", "medium", "low"}

fallback_result ==
    [raised |-> "", relevance |-> "low",
     insights |-> << <<"Analysis parsing error: ", "str(e)">> >>,
     suggestions |-> << <<"Please try again or review the content manually">> >>]

\* the parsing half of Analyzer.analyze: what it returns or raises for a
\* response text
parse_response(text) ==
    LET m == json_match(text)
        result_data == IF m.matched THEN json_loads(m.group) ELSE json_loads(text)
        rel == IF result_data.relevance = Absent THEN "low" ELSE result_data.relevance
    IN  IF ~result_data.ok THEN fallback_result
        ELSE IF result_data.kind # "dict"
        THEN [raised |-> "AttributeError", relevance |-> Absent,
              insights |-> <<>>, suggestions |-> <<>>]
        ELSE IF rel \notin RelevanceLevels THEN fallback_result
        ELSE [raised |-> "", relevance |-> rel,
              insights |-> IF result_data.insights = Absent THEN <<>>
                           ELSE result_data.insights,
              suggestions |-> IF result_data.suggestions = Absent THEN <<>>
                              ELSE result_data.suggestions]

\* ------------------------------------------------------------ SpecAnalyze
RespAlphabet == {"{", "}", "[", "]", "null", "7", "prose", REL_HIGH, REL_BAD, INS}
Responses == UNION {[1..n -> RespAlphabet] : n \in 0..MaxRespLen}

InitAnalyze ==
    /\ response_text \in Responses
    /\ analysis_out = None
    /\ LogIdle /\ ConIdle /\ DetIdle /\ CtxIdle /\ FetIdle /\ RevIdle

\* analyze, from the point where the service has answered
Analyze ==
    /\ analysis_out = None
    /\ analysis_out' = parse_response(response_text)
    /\ UNCHANGED <<conVars, response_text, logVars, detVars, ctxVars, fetVars, revVars>>

NextAnalyze == Analyze

SpecAnalyze == InitAnalyze /\ [][NextAnalyze]_vars

\* ------------------------------------------------------------------- C5
IsFallback(r) ==
    /\ r.raised = ""
    /\ r.relevance = "low"
    /\ Len(r.insights) = 1 /\ r.insights[1][1] = "Analysis parsing error: "
    /\ r.suggestions = << <<"Please try again or review the content manually">> >>

HasToken(text, tok) == \E i \in 1..Len(text) : text[i] = tok
\* the response holds no JSON object at all: plain text or a non-object value
NoJsonObject(text) == ~HasToken(text, "{")
\* the response carries a relevance value outside {high, medium, low}
BadRelevance(text) == HasToken(text, REL_BAD)

\* C5: once the service has answered, analyze never raises, and a response
\* that holds no JSON object or carries an invalid relevance value gives the
\* fallback result: LOW, one parsing-failure insight, one retry suggestion.
C5_ParseFailureGivesFallback ==
    analysis_out # None =>
        /\ analysis_out.raised = ""
        /\ (NoJsonObject(response_text) \/ BadRelevance(response_text))
               => IsFallback(analysis_out)

\* -------------------------------------------------- content type detection
\* A URL is a text whose tokens are the scheme, "//", the pieces of the
\* authority and the pieces of the path; the domain patterns are tokens.
NetlocEnd == {"/", "?", "#"}

\* urlparse(url).netloc: what follows "//" up to the first "/", "?" or "#"
netloc(u) ==
    IF Len(u) >= 2 /\ u[2] = "//"
    THEN LET rest == SubSeq(u, 3, Len(u))
             ends == {i \in 1..Len(rest) : rest[i] \in NetlocEnd}
         IN  IF ends = {} THEN rest
             ELSE SubSeq(rest, 1, (CHOOSE i \in ends : \A j \in ends : i <= j) - 1)
    ELSE <<>>

\* str.lower(), token by token
lower(text) ==
    [i \in 1..Len(text) |->
        IF text[i] = "YouTube.com" THEN "youtube.com"
        ELSE IF text[i] = "X.com" THEN "x.com"
        ELSE text[i]]

\* detect_content_type with the two domain tests in the other order
detect_content_type_video_first(u) ==
    LET domain == lower(netloc(u))
    IN  IF Contains(<<"youtube.com">>, domain) \/ Contains(<<"youtu.be">>, domain)
        THEN "youtube"
        ELSE IF Contains(<<"twitter.com">>, domain) \/ Contains(<<"x.com">>, domain)
        THEN "twitter"
        ELSE "article"

\* ContentFetcher.detect_content_type
detect_content_type(u) ==
    LET domain == lower(netloc(u))
    IN  IF Contains(<<"twitter.com">>, domain) \/ Contains(<<"x.com">>, domain)
        THEN "twitter"
        ELSE IF Contains(<<"youtube.com">>, domain) \/ Contains(<<"youtu.be">>, domain)
        THEN "youtube"
        ELSE "article"

\* str(request.url): an HttpUrl keeps the URL as given but for the host,
\* which it lower-cases
url_str_of(u) ==
    IF Len(u) >= 2 /\ u[2] = "//"
    THEN <<u[1], u[2]>> \o lower(netloc(u))
         \o SubSeq(u, 3 + Len(netloc(u)), Len(u))
    ELSE u

\* the initial UNKNOWN left in place when no pattern matches
manual_content_type_keeps_unknown(url_str) ==
    IF Contains(<<"twitter.com">>, url_str) \/ Contains(<<"x.com">>, url_str)
    THEN "twitter"
    ELSE IF Contains(<<"youtube.com">>, url_str) \/ Contains(<<"youtu.be">>, url_str)
    THEN "youtube"
    ELSE "unknown"
\* the content type review_url gives to manual content (routes.py:61-67)
manual_content_type(url_str) ==
    IF Contains(<<"twitter.com">>, url_str) \/ Contains(<<"x.com">>, url_str)
    THEN "twitter"
    ELSE IF Contains(<<"youtube.com">>, url_str) \/ Contains(<<"youtu.be">>, url_str)
    THEN "youtube"
    ELSE "article"

\* ------------------------------------------------------------- SpecDetect
HostTokens == {"www.", ".", "youtube.com", "YouTube.com", "youtu.be",
               "twitter.com", "x.com", "netfli", "example.org"}
Hosts == UNION {[1..n -> HostTokens] : n \in 1..MaxHostLen}
UserInfos == {<<>>, <<"x.com", "@">>, <<"youtube.com", "@">>}
Paths == {<<>>, <<"/", "x.com">>, <<"?", "v=", "youtube.com">>}
Urls == {<<"https:", "//">> \o ui \o h \o p : ui \in UserInfos, h \in Hosts, p \in Paths}

InitDetect ==
    /\ url \in Urls
    /\ detected = NoType
    /\ manual_type = NoType
    /\ LogIdle /\ ConIdle /\ AnIdle /\ CtxIdle /\ FetIdle /\ RevIdle

Detect ==
    /\ detected = NoType
    /\ detected' = detect_content_type(url)
    /\ UNCHANGED <<conVars, url, manual_type, logVars, anVars, ctxVars, fetVars, revVars>>

\* review_url lines 46 and 59-67 on a request for the same URL: the type
\* given to manual content
ClassifyManual ==
    /\ manual_type = NoType
    /\ manual_type' = manual_content_type(url_str_of(url))
    /\ UNCHANGED <<conVars, url, detected, logVars, anVars, ctxVars, fetVars, revVars>>

NextDetect == Detect \/ ClassifyManual

SpecDetect == InitDetect /\ [][NextDetect]_vars

\* ------------------------------------------------------------------- C8
\* urlparse(url).hostname: the authority without userinfo (and port), lowercased
hostname(u) ==
    LET nl == netloc(u)
        ats == {i \in 1..Len(nl) : nl[i] = "@"}
    IN  lower(IF ats = {} THEN nl
              ELSE SubSeq(nl, (CHOOSE i \in ats : \A j \in ats : j <= i) + 1, Len(nl)))

VideoPattern(text) == HasToken(text, "youtube.com") \/ HasToken(text, "youtu.be")
SocialPattern(text) == HasToken(text, "twitter.com") \/ HasToken(text, "x.com")

NoneText == [none |-> TRUE, text |-> <<>>]
Some(t) == [none |-> FALSE, text |-> t]
\* Python truthiness of an optional text: neither None nor ""
Truthy(o) == ~o.none /\ o.text # <<>>

\* An answer of the document store: status is an HTTP status or "neterr"
\* (the request itself failed); a 200 answer carries a JSON body, which has a
\* "content" key or not, base64 text that decodes as UTF-8 or not.
ErrAnswer(st) == [status |-> st, has_content |-> FALSE, decodes |-> FALSE, text |-> <<>>]
FileAnswer(t) == [status |-> "200", has_content |-> TRUE, decodes |-> TRUE, text |-> t]
NoContentKey == [status |-> "200", has_content |-> FALSE, decodes |-> FALSE, text |-> <<>>]
Undecodable == [status |-> "200", has_content |-> TRUE, decodes |-> FALSE, text |-> <<>>]

Returned(o) == [raised |-> "", value |-> o]
Raised(e) == [raised |-> e, value |-> NoneText]

\* _fetch_file without its handler for httpx.HTTPStatusError
_fetch_file_reraises(answer) ==
    IF answer.status = "neterr" THEN Returned(NoneText)
    ELSE IF answer.status = "404" THEN Returned(NoneText)
    ELSE IF answer.status # "200" THEN Raised("HTTPStatusError")
    ELSE IF ~answer.has_content THEN Returned(NoneText)
    ELSE IF ~answer.decodes THEN Returned(NoneText)
    ELSE Returned(Some(answer.text))

\* ContextLoader._fetch_file
_fetch_file(answer) ==
    IF answer.status = "neterr" THEN Returned(NoneText)          \* except Exception
    ELSE IF answer.status = "404" THEN Returned(NoneText)
    ELSE IF answer.status # "200" THEN Returned(NoneText)        \* except HTTPStatusError
    ELSE IF ~answer.has_content THEN Returned(NoneText)
    ELSE IF ~answer.decodes THEN Returned(NoneText)              \* except Exception
    ELSE Returned(Some(answer.text))

Files == <<"spec.md", "build-plan.md", "ideas.md">>

SectionMarker == <<NL, NL, "---", NL, NL>>
NoContextSentinel == <<"No project context available.">>
SpecHeader == <<"## Project Specification", NL, NL>>
PlanHeader == <<"## Build Plan", NL, NL>>
IdeasHeader == <<"## Ideas", NL, NL>>

\* the ideas section placed before the build plan
get_combined_context_ideas_first(ctx) ==
    LET parts == (IF Truthy(ctx.spec) THEN <<SpecHeader \o ctx.spec.text>> ELSE <<>>)
                 \o (IF Truthy(ctx.ideas) THEN <<IdeasHeader \o ctx.ideas.text>> ELSE <<>>)
                 \o (IF Truthy(ctx.build_plan)
                     THEN <<PlanHeader \o ctx.build_plan.text>> ELSE <<>>)
    IN  IF parts # <<>> THEN Join(parts, SectionMarker) ELSE NoContextSentinel
\* ProjectContext.get_combined_context
get_combined_context(ctx) ==
    LET parts == (IF Truthy(ctx.spec) THEN <<SpecHeader \o ctx.spec.text>> ELSE <<>>)
                 \o (IF Truthy(ctx.build_plan)
                     THEN <<PlanHeader \o ctx.build_plan.text>> ELSE <<>>)
                 \o (IF Truthy(ctx.ideas) THEN <<IdeasHeader \o ctx.ideas.text>> ELSE <<>>)
    IN  IF parts # <<>> THEN Join(parts, SectionMarker) ELSE NoContextSentinel

\* ContextLoader.load_project_context: answers[i] is the store's answer for
\* Files[i]; an exception of _fetch_file would propagate
load_project_context(project_name, answers) ==
    LET spec == _fetch_file(answers[1])
        build_plan == _fetch_file(answers[2])
        ideas == _fetch_file(answers[3])
    IN  IF spec.raised # "" THEN [raised |-> spec.raised, name |-> project_name,
              spec |-> NoneText, build_plan |-> NoneText, ideas |-> NoneText]
        ELSE IF build_plan.raised # "" THEN [raised |-> build_plan.raised,
              name |-> project_name,
              spec |-> NoneText, build_plan |-> NoneText, ideas |-> NoneText]
        ELSE IF ideas.raised # "" THEN [raised |-> ideas.raised, name |-> project_name,
              spec |-> NoneText, build_plan |-> NoneText, ideas |-> NoneText]
        ELSE [raised |-> "", name |-> project_name, spec |-> spec.value,
              build_plan |-> build_plan.value, ideas |-> ideas.value]

Whitespace == {" ", "\t"}
RECURSIVE lstrip(_)
lstrip(line) ==
    IF line # <<>> /\ line[1] \in Whitespace THEN lstrip(Tail(line)) ELSE line
RECURSIVE rstrip(_)
rstrip(line) ==
    IF line # <<>> /\ line[Len(line)] \in Whitespace
    THEN rstrip(SubSeq(line, 1, Len(line) - 1)) ELSE line
\* str.strip() of a line of one-character tokens
strip(line) == rstrip(lstrip(line))

DescLimit == 100
DescKeep == 97

RECURSIVE first_description_line(_)
\* the loop of _get_project_description over the lines of spec.md
first_description_line(lines) ==
    IF lines = <<>> THEN NoneText
    ELSE LET line == strip(lines[1])
         IN  IF line # <<>> /\ line[1] # "#"
             THEN IF Len(line) > DescLimit
                  THEN Some(SubSeq(line, 1, DescKeep) \o <<"...">>)
                  ELSE Some(line)
             ELSE first_description_line(Tail(lines))

\* ContextLoader._get_project_description
_get_project_description(answer) ==
    LET spec_content == _fetch_file(answer)
    IN  IF spec_content.raised # "" THEN NoneText                \* except Exception
        ELSE IF Truthy(spec_content.value)
        THEN first_description_line(Split(spec_content.value.text, NL))
        ELSE NoneText

\* no entry taken as hidden
startswith_dot_never(name) == FALSE
\* item["name"].startswith("."): the hidden entries among the names used here
startswith_dot(name) == name \in {".github"}

RECURSIVE project_infos(_, _)
\* the loop of list_projects over the directory entries
project_infos(contents, desc) ==
    IF contents = <<>> THEN <<>>
    ELSE LET item == contents[1]
         IN  (IF item.type = "dir" /\ ~startswith_dot(item.name)
              THEN << [name |-> item.name,
                       description |-> _get_project_description(desc[item.name]),
                       path |-> item.path] >>
              ELSE <<>>)
             \o project_infos(Tail(contents), desc)

\* ContextLoader.list_projects: listing is the store's answer for the
\* directory, desc[name] its answer for the spec.md of entry name
list_projects(listing, desc) ==
    IF listing.status = "neterr" THEN [raised |-> "ConnectError", projects |-> <<>>]
    ELSE IF listing.status # "200"                     \* response.raise_for_status()
    THEN [raised |-> "HTTPStatusError", projects |-> <<>>]
    ELSE [raised |-> "", projects |-> project_infos(listing.contents, desc)]

\* ------------------------------------------------------------ SpecContext
Statuses == {"200", "404", "500", "neterr"}
FileAnswers == {FileAnswer(<<"a">>), FileAnswer(<<"b">>), FileAnswer(<<>>), NoContentKey, Undecodable,
                ErrAnswer("404"), ErrAnswer("500"), ErrAnswer("neterr")}
LongLine == [i \in 1..(DescLimit + 1) |-> "a"]
DescAnswers == {FileAnswer(<<"#", " ", "T", NL, NL, " ", "a", " ", NL, "b">>),
                FileAnswer(LongLine), ErrAnswer("404"), ErrAnswer("500"),
                ErrAnswer("neterr")}
Item(t, n) == [type |-> t, name |-> n, path |-> <<"projects/active/", n>>]
Items == {Item("dir", "p1"), Item("dir", "p2"), Item("dir", "p3"),
          Item("dir", ".github"), Item("file", "README.md")}
ItemNames == {it.name : it \in Items}
\* directory listings: sequences of distinct entries
Listings == {l \in UNION {[1..n -> Items] : n \in 0..MaxItems} :
                \A i, j \in 1..Len(l) : i # j => l[i] # l[j]}

InitContext == CtxIdle /\ LogIdle /\ ConIdle /\ AnIdle /\ DetIdle /\ FetIdle /\ RevIdle

\* one call of list_projects; the store answers the listing and, for each
\* listed project, the request for its spec.md
ListProjects ==
    \E st \in Statuses, l \in Listings :
      \E d \in [{n \in ProjectNames : \E i \in 1..Len(l) : l[i].name = n} -> DescAnswers] :
        LET desc == [n \in ItemNames |->
                        IF n \in DOMAIN d THEN d[n] ELSE ErrAnswer("404")]
        IN  /\ list_out = None /\ ctx_out = None
            /\ st # "200" => l = <<>>
            /\ served_listing' = [status |-> st, contents |-> l, desc |-> desc]
            /\ list_out' = list_projects([status |-> st, contents |-> l], desc)
            /\ UNCHANGED <<conVars, served_files, ctx_out, combined, logVars, anVars, detVars, fetVars, revVars>>

\* one call of load_project_context; the store answers the three documents
LoadProjectContext ==
    \E p \in ProjectNames, answers \in [1..3 -> FileAnswers] :
        /\ list_out = None /\ ctx_out = None
        /\ served_files' = answers
        /\ ctx_out' = load_project_context(p, answers)
        /\ UNCHANGED <<conVars, served_listing, list_out, combined, logVars, anVars, detVars, fetVars, revVars>>

\* analyze, lines 66-73: the prompt is built from the loaded context
CombineContext ==
    /\ ctx_out # None /\ ctx_out.raised = "" /\ combined = NoneText
    /\ combined' = Some(get_combined_context(ctx_out))
    /\ UNCHANGED <<conVars, served_listing, served_files, list_out, ctx_out,
                   logVars, anVars, detVars, fetVars, revVars>>

NextContext == ListProjects \/ LoadProjectContext \/ CombineContext

SpecContext == InitContext /\ [][NextContext]_vars

\* ------------------------------------------------------------------- C9
\* a transport-level failure: an HTTP error status other than 404
TransportFailure(answer) == answer.status \notin {"200", "404", "neterr"}

\* C9 (as claimed): list_projects and load_project_context both raise when
\* the store answers with a non-404 HTTP error, and a 404 on one document
\* makes that field absent without raising.
C9_BothRaiseOnTransportFailure ==
    /\ (list_out # None /\ TransportFailure(served_listing)) => list_out.raised # ""
    /\ ctx_out # None =>
          /\ (\E i \in 1..3 : TransportFailure(served_files[i])) => ctx_out.raised # ""
          /\ (\A i \in 1..3 : ~TransportFailure(served_files[i])) =>
                /\ ctx_out.raised = ""
                /\ served_files[1].status = "404" => ctx_out.spec.none
                /\ served_files[2].status = "404" => ctx_out.build_plan.none
                /\ served_files[3].status = "404" => ctx_out.ideas.none

\* C9 (amended): list_projects raises when the directory listing answers
\* with a non-404 HTTP error; load_project_context never raises: a document
\* that answers 404 or any other HTTP error is an absent field.
C9_ListRaisesLoadDegrades ==
    /\ (list_out # None /\ TransportFailure(served_listing)) => list_out.raised # ""
    /\ ctx_out # None =>
          /\ ctx_out.raised = ""
          /\ served_files[1].status \in {"404", "500"} => ctx_out.spec.none
          /\ served_files[2].status \in {"404", "500"} => ctx_out.build_plan.none
          /\ served_files[3].status \in {"404", "500"} => ctx_out.ideas.none

\* a context was loaded while one document answered 500 and another 404
C9_Witness ==
    /\ ctx_out # None
    /\ \E i, j \in 1..3 : /\ served_files[i].status = "500"
                          /\ served_files[j].status = "404"

\* ------------------------------------------------------ the article fetcher
\* A page as the HTML parser presents it: the string of its title element,
\* the content of its og:title meta tag, for each content selector the text
\* of the first element it selects, and the text of the body; each is an
\* optional text of one-character tokens.  The unwanted elements (script,
\* style, nav, ...) are taken as already removed from these texts.
Selectors == <<"article", "main", "[role=\"main\"]", ".post-content", ".article-content">>

ArticleBudget == 10000
ArticleMarker == <<NL, NL, "[Content truncated...]">>

\* lines = [line.strip() for line in text.split("\n") if line.strip()]
RECURSIVE clean_lines(_)
clean_lines(lines) ==
    IF lines = <<>> THEN <<>>
    ELSE (IF strip(lines[1]) # <<>> THEN <<strip(lines[1])>> ELSE <<>>)
         \o clean_lines(Tail(lines))

\* the title of _fetch_article
article_title(page) ==
    LET t1 == IF page.title.none THEN <<>> ELSE page.title.text
        t2 == IF t1 = <<>> /\ ~page.og_title.none THEN page.og_title.text ELSE t1
    IN  IF t2 # <<>> THEN strip(t2) ELSE <<"Untitled Article">>

\* the text of the first selector that selects an element, else of the body
article_text(page) ==
    LET hits == {i \in 1..Len(Selectors) : ~page.regions[i].none}
    IN  IF hits # {}
        THEN page.regions[CHOOSE i \in hits : \A j \in hits : i <= j].text
        ELSE IF page.body.none THEN <<>> ELSE page.body.text

\* the marker appended to a text of exactly the budget as well
truncate_at_budget(text, budget, marker) ==
    IF Len(text) >= budget THEN SubSeq(text, 1, budget) \o marker ELSE text
\* if len(text) > budget: text = text[:budget] + marker
\* (text is a sequence of one-character tokens, the marker is one piece)
truncate(text, budget, marker) ==
    IF Len(text) > budget THEN SubSeq(text, 1, budget) \o marker ELSE text

\* lines 75-76: strip every line and drop the blank ones
normalize(text) == Join(clean_lines(Split(text, NL)), <<NL>>)

\* ContentFetcher._fetch_article
_fetch_article(u, answer) ==
    IF answer.status = "neterr"
    THEN [raised |-> "ConnectError", url |-> u, title |-> <<>>, content |-> <<>>,
          content_type |-> NoType]
    ELSE IF answer.status # "200"                      \* response.raise_for_status()
    THEN [raised |-> "HTTPStatusError", url |-> u, title |-> <<>>, content |-> <<>>,
          content_type |-> NoType]
    ELSE LET text == article_text(answer.page)
             content == normalize(text)
         IN  [raised |-> "", url |-> u, title |-> article_title(answer.page),
              content |-> truncate(content, ArticleBudget, ArticleMarker),
              content_type |-> "article"]

\* ------------------------------------------------------------ SpecArticle
RawTexts == UNION {[1..n -> {"a", " ", NL}] : n \in 0..MaxTextLen}
OptTexts == {NoneText} \cup {Some(t) : t \in RawTexts}
Titles == {NoneText, Some(<<>>), Some(<<" ", "T">>)}
RegionOpts == {NoneText, Some(<<" ">>), Some(<<"m">>)}
NoPage == [title |-> NoneText, og_title |-> NoneText,
           regions |-> [i \in 1..Len(Selectors) |-> NoneText], body |-> NoneText]
Pages == [title : Titles, og_title : {NoneText, Some(<<"O">>)},
          regions : [1..Len(Selectors) -> RegionOpts], body : OptTexts]
PageAnswers == {[status |-> "200", page |-> pg] : pg \in Pages}
               \cup {[status |-> st, page |-> NoPage] : st \in {"404", "500", "neterr"}}
ArticleUrl == <<"https:", "//", "example.org", "/", "post">>

InitArticle ==
    /\ served_page \in PageAnswers
    /\ fetch_out = None
    /\ LogIdle /\ ConIdle /\ AnIdle /\ DetIdle /\ CtxIdle /\ RevIdle

\* fetch(url) on an article URL
FetchArticle ==
    /\ fetch_out = None
    /\ detect_content_type(ArticleUrl) = "article"
    /\ fetch_out' = _fetch_article(ArticleUrl, served_page)
    /\ UNCHANGED <<conVars, served_page, logVars, anVars, detVars, ctxVars, revVars>>

NextArticle == FetchArticle

SpecArticle == InitArticle /\ [][NextArticle]_vars

\* ------------------------------------------------------------------ C10
\* the page yields no extractable text: no line of the selected text is
\* anything but whitespace
NoExtractableText(page) ==
    \A i \in 1..Len(article_text(page)) : article_text(page)[i] \in Whitespace \cup {NL}

\* C10: the fetch of an article raises whenever the request errors, the
\* answer is not 2xx or the page yields no extractable text, so it never
\* returns a FetchedContent whose content is empty.
C10_ArticleNeverEmpty ==
    fetch_out # None =>
        /\ served_page.status # "200" => fetch_out.raised # ""
        /\ (served_page.status = "200" /\ NoExtractableText(served_page.page))
               => fetch_out.raised # ""
        /\ fetch_out.raised = "" => fetch_out.content # <<>>

\* ---------------------------------------------------- the review orchestrator
Http(code, detail) == [status |-> code, detail |-> detail]

FetchedContent(u, title, text, type) ==
    [url |-> u, title |-> title, content |-> text, content_type |-> type]

\* not text.strip(): the text is empty or whitespace only
blank(text) == \A i \in 1..Len(text) : text[i] \in Whitespace \cup {NL}

\* the fallback taken only when the fetch raised
use_manual_never_on_blank(f, req) == f.raised # "" /\ Truthy(req.content)
\* (content is None or not content.content.strip()) and request.content
\* f is what fetcher.fetch did: [raised, value]
use_manual(f, req) ==
    (f.raised # "" \/ blank(f.value.content)) /\ Truthy(req.content)

\* content after lines 49-76 of review_url, None when the request is rejected
content_after_fetch(f, req) ==
    IF use_manual(f, req)
    THEN FetchedContent(req.url, <<"Manual Content">>, req.content.text,
                        manual_content_type(req.url))
    ELSE IF f.raised # "" THEN None
    ELSE f.value

\* the check left out
has_context_unchecked(ctx) == TRUE
\* not (not spec and not build_plan and not ideas)
has_context(ctx) ==
    Truthy(ctx.spec) \/ Truthy(ctx.build_plan) \/ Truthy(ctx.ideas)

relevance_order(r) ==
    IF r.relevance = "high" THEN 0
    ELSE IF r.relevance = "medium" THEN 1
    ELSE IF r.relevance = "low" THEN 2
    ELSE 99

RECURSIVE insert_sorted(_, _)
\* x goes behind every element whose key is not greater
insert_sorted(x, sorted) ==
    IF sorted = <<>> THEN <<x>>
    ELSE IF relevance_order(sorted[1]) <= relevance_order(x)
         THEN <<sorted[1]>> \o insert_sorted(x, Tail(sorted))
         ELSE <<x>> \o sorted

RECURSIVE sort_from(_, _)
sort_from(rs, sorted) ==
    IF rs = <<>> THEN sorted ELSE sort_from(Tail(rs), insert_sorted(rs[1], sorted))

\* results.sort(key=...) left out
sort_results_unsorted(rs) == rs
\* results.sort(key=lambda r: relevance_order.get(r.relevance, 99)): stable
sort_results(rs) == sort_from(rs, <<>>)

\* history only: nothing when spec, build plan and ideas are all None
loaded_text(ctx) ==
    IF ctx.spec.none /\ ctx.build_plan.none /\ ctx.ideas.none
    THEN <<>> ELSE <<"documents">>

\* an entry of the call history
Ev(op, p, ok, rel, text) ==
    [op |-> op, project |-> p, ok |-> ok, rel |-> rel, text |-> text]

\* Analyzer.analyze: answer is what the text-generation service did, a raised
\* error or a response text
analyze(answer) ==
    IF answer.raised # ""
    THEN [raised |-> answer.raised, relevance |-> Absent,
          insights |-> <<>>, suggestions |-> <<>>]
    ELSE parse_response(answer.text)

\* ------------------------------------------------------------- SpecReview
ReviewUrls == { <<"https:", "//", "example.org", "/", "post">>,
                <<"https:", "//", "x.com", "/", "status">>,
                <<"https:", "//", "www.", "youtube.com", "/", "watch?v=">> }
Requests == [url : ReviewUrls, project : {"p1", "all"},
             content : {NoneText, Some(<<>>), Some(<<"manual">>)}]

NoContent == FetchedContent(<<>>, <<>>, <<>>, NoType)
\* what fetcher.fetch can do for a URL: the social-post strategy always
\* returns non-empty content; the article strategy may raise or return the
\* empty text, the video strategy may raise or return a whitespace transcript
FetchResults(u) ==
    LET type == detect_content_type(u)
    IN  {[raised |-> "", value |-> FetchedContent(u, <<"Title">>, t, type)] :
            t \in IF type = "twitter" THEN {<<"body">>}
                  ELSE IF type = "youtube" THEN {<<" ", NL>>, <<"body">>}
                  ELSE {<<>>, <<"body">>}}
        \cup (IF type = "twitter" THEN {}
              ELSE {[raised |-> "FetchError", value |-> NoContent]})

ReviewFileAnswers == {FileAnswer(<<"a">>), ErrAnswer("404"), ErrAnswer("500")}
ServiceAnswers ==
    {[raised |-> "APIError", text |-> <<>>]}
    \cup {[raised |-> "", text |-> t] :
            t \in { <<"{", REL_HIGH, INS, SUG, "}">>, <<"{", REL_MEDIUM, INS, "}">>,
                    <<"{", REL_LOW, "}">>, <<"prose">>, <<"null">> }}

\* the directory listing with the first n projects
Directory(n) ==
    <<Item("dir", ".github")>> \o [i \in 1..n |-> Item("dir", Projects[i])]
    \o <<Item("file", "README.md")>>
NoDescriptions == [n \in ItemNames \cup ProjectNames |-> ErrAnswer("404")]

InitReview ==
    /\ request \in Requests
    /\ pc = "fetch"
    /\ rcontent = None /\ fetched = None
    /\ projects = <<>> /\ idx = 0 /\ project_context = None /\ ranalysis = None
    /\ results = <<>> /\ response = None /\ trace = <<>>
    /\ LogIdle /\ ConIdle /\ AnIdle /\ DetIdle /\ CtxIdle /\ FetIdle

others == <<anVars, detVars, ctxVars, fetVars>>

\* review_url lines 46-86: fetch, manual-content fallback, rejection, dispatch
Fetch ==
    \E f \in FetchResults(request.url) :
        LET c == content_after_fetch(f, request)
        IN  /\ pc = "fetch"
            /\ fetched' = f
            /\ rcontent' = c
            /\ IF c = None
               THEN /\ response' = Http(400, "Failed to fetch content")
                    /\ pc' = "done"
               ELSE /\ response' = response
                    /\ pc' = IF request.project = "all" THEN "list" ELSE "load"
            /\ UNCHANGED <<conVars, request, projects, idx, project_context, ranalysis,
                           results, trace, logVars, others>>

\* review_url lines 89-100: load the project context and check it
LoadContext ==
    \E answers \in [1..3 -> ReviewFileAnswers] :
        LET ctx == load_project_context(request.project, answers)
        IN  /\ pc = "load"
            /\ trace' = Append(trace, Ev("load", request.project,
                                         ctx.raised = "" /\ has_context(ctx), "", loaded_text(ctx)))
            /\ IF ctx.raised # ""
               THEN /\ response' = Http(400, "Failed to load project context")
                    /\ pc' = "done"
                    /\ project_context' = project_context
               ELSE IF ~has_context(ctx)
               THEN /\ response' = Http(400, "not found or has no context files")
                    /\ pc' = "done"
                    /\ project_context' = ctx
               ELSE /\ response' = response
                    /\ pc' = "analyze"
                    /\ project_context' = ctx
            /\ UNCHANGED <<conVars, request, rcontent, fetched, projects, idx, ranalysis,
                           results, logVars, others>>

\* a failed analysis reported as a bad request
AnalyzeSingleBadRequest ==
    \E answer \in ServiceAnswers :
        LET a == analyze(answer)
        IN  /\ pc = "analyze"
            /\ trace' = Append(trace, Ev("analyze", request.project, a.raised = "",
                                         a.relevance, rcontent.content))
            /\ IF a.raised # ""
               THEN /\ response' = Http(400, "Analysis failed")
                    /\ pc' = "done"
                    /\ ranalysis' = ranalysis
               ELSE /\ response' = response
                    /\ pc' = "log"
                    /\ ranalysis' = a
            /\ UNCHANGED <<conVars, request, rcontent, fetched, projects, idx, project_context,
                           results, logVars, others>>

\* review_url lines 102-106: analyze
AnalyzeSingle ==
    \E answer \in ServiceAnswers :
        LET a == analyze(answer)
        IN  /\ pc = "analyze"
            /\ trace' = Append(trace, Ev("analyze", request.project, a.raised = "",
                                         a.relevance, rcontent.content))
            /\ IF a.raised # ""
               THEN /\ response' = Http(500, "Analysis failed")
                    /\ pc' = "done"
                    /\ ranalysis' = ranalysis
               ELSE /\ response' = response
                    /\ pc' = "log"
                    /\ ranalysis' = a
            /\ UNCHANGED <<conVars, request, rcontent, fetched, projects, idx, project_context,
                           results, logVars, others>>

\* the ReviewResponse of lines 115-124
ReviewResponse ==
    [status |-> 200, url |-> request.url, project |-> request.project,
     title |-> rcontent.title, content_type |-> rcontent.content_type,
     relevance |-> ranalysis.relevance, insights |-> ranalysis.insights,
     suggestions |-> ranalysis.suggestions]

\* a LOW verdict returned without being logged
LogSingleOnlyRelevant ==
    /\ pc = "log"
    /\ logs' = IF ranalysis.relevance = "low" THEN logs
               ELSE [logs EXCEPT ![request.project] =
                        log_review(logs[request.project], request.project, now,
                                   rcontent, ranalysis)]
    /\ logged' = logged \cup {<<request.project, Day(now)>>}
    /\ calls' = calls + 1
    /\ trace' = Append(trace, Ev("log", request.project, TRUE, ranalysis.relevance,
                                 rcontent.content))
    /\ response' = ReviewResponse
    /\ pc' = "done"
    /\ UNCHANGED <<conVars, now, request, rcontent, fetched, projects, idx, project_context,
                   ranalysis, results, others>>

\* review_url lines 108-124, log_review returns
LogSingle ==
    /\ pc = "log"
    /\ logs' = [logs EXCEPT ![request.project] =
                    log_review(logs[request.project], request.project, now,
                               rcontent, ranalysis)]
    /\ logged' = logged \cup {<<request.project, Day(now)>>}
    /\ calls' = calls + 1
    /\ trace' = Append(trace, Ev("log", request.project, TRUE, ranalysis.relevance,
                                 rcontent.content))
    /\ response' = ReviewResponse
    /\ pc' = "done"
    /\ UNCHANGED <<conVars, now, request, rcontent, fetched, projects, idx, project_context,
                   ranalysis, results, others>>

\* a log failure turned into a failed request
LogSingleRaisesFails ==
    /\ pc = "log"
    /\ calls' = calls + 1
    /\ trace' = Append(trace, Ev("log", request.project, FALSE, ranalysis.relevance,
                                 rcontent.content))
    /\ response' = Http(500, "Failed to log review")
    /\ pc' = "done"
    /\ UNCHANGED <<conVars, logs, now, logged, request, rcontent, fetched, projects, idx,
                   project_context, ranalysis, results, others>>

\* review_url lines 108-124, log_review raises
LogSingleRaises ==
    /\ pc = "log"
    /\ calls' = calls + 1
    /\ trace' = Append(trace, Ev("log", request.project, FALSE, ranalysis.relevance,
                                 rcontent.content))
    /\ response' = ReviewResponse
    /\ pc' = "done"
    /\ UNCHANGED <<conVars, logs, now, logged, request, rcontent, fetched, projects, idx,
                   project_context, ranalysis, results, others>>

\* _review_all_projects lines 129-135: list the projects
ListAll ==
    \E st \in Statuses, n \in 0..MaxProjects :
        LET out == list_projects([status |-> st, contents |-> Directory(n)],
                                 NoDescriptions)
        IN  /\ pc = "list"
            /\ IF out.raised # ""
               THEN /\ response' = Http(500, "Failed to list projects")
                    /\ pc' = "done"
                    /\ projects' = projects
                    /\ idx' = idx
               ELSE /\ response' = response
                    /\ pc' = "loop"
                    /\ projects' = out.projects
                    /\ idx' = 1
            /\ UNCHANGED <<conVars, request, rcontent, fetched, project_context, ranalysis,
                           results, trace, logVars, others>>

\* the loop walking the listing from its end
project_info_reversed == projects[Len(projects) + 1 - idx]
\* the project the for loop is at
project_info == projects[idx]

\* lines 137-143: load the context of the next project, skip it without context
LoadContextAll ==
    \E answers \in [1..3 -> ReviewFileAnswers] :
        LET ctx == load_project_context(project_info.name, answers)
            go  == ctx.raised = "" /\ has_context(ctx)
        IN  /\ pc = "loop" /\ idx <= Len(projects)
            /\ trace' = Append(trace, Ev("load", project_info.name, go, "", loaded_text(ctx)))
            /\ project_context' = IF go THEN ctx ELSE None
            /\ pc' = IF go THEN "analyze_all" ELSE "loop"
            /\ idx' = IF go THEN idx ELSE idx + 1
            /\ UNCHANGED <<conVars, request, rcontent, fetched, projects, ranalysis, results,
                           response, logVars, others>>

ProjectRelevance(name, a) ==
    [project |-> name, relevance |-> a.relevance, insights |-> a.insights,
     suggestions |-> a.suggestions]

\* every verdict kept and logged, LOW included
AnalyzeAllReturnsKeepsLow ==
    \E answer \in ServiceAnswers :
        LET a == analyze(answer)
            keep == a.relevance \in {"high", "medium", "low"}
        IN  /\ pc = "analyze_all"
            /\ a.raised = ""
            /\ trace' = Append(trace, Ev("analyze", project_info.name, TRUE,
                                         a.relevance, rcontent.content))
            /\ results' = IF keep
                          THEN Append(results, ProjectRelevance(project_info.name, a))
                          ELSE results
            /\ ranalysis' = IF keep THEN a ELSE None
            /\ pc' = IF keep THEN "log_all" ELSE "loop"
            /\ idx' = IF keep THEN idx ELSE idx + 1
            /\ project_context' = None
            /\ UNCHANGED <<conVars, request, rcontent, fetched, projects, response,
                           logVars, others>>

\* lines 145-156: analyze returns; keep a HIGH or MEDIUM verdict
AnalyzeAllReturns ==
    \E answer \in ServiceAnswers :
        LET a == analyze(answer)
            keep == a.relevance \in {"high", "medium"}
        IN  /\ pc = "analyze_all"
            /\ a.raised = ""
            /\ trace' = Append(trace, Ev("analyze", project_info.name, TRUE,
                                         a.relevance, rcontent.content))
            /\ results' = IF keep
                          THEN Append(results, ProjectRelevance(project_info.name, a))
                          ELSE results
            /\ ranalysis' = IF keep THEN a ELSE None
            /\ pc' = IF keep THEN "log_all" ELSE "loop"
            /\ idx' = IF keep THEN idx ELSE idx + 1
            /\ project_context' = None
            /\ UNCHANGED <<conVars, request, rcontent, fetched, projects, response,
                           logVars, others>>

\* a failed analysis that ends the whole request
AnalyzeAllRaisesAborts ==
    \E answer \in ServiceAnswers :
        /\ pc = "analyze_all"
        /\ analyze(answer).raised # ""
        /\ trace' = Append(trace, Ev("analyze", project_info.name, FALSE, "",
                                     rcontent.content))
        /\ response' = Http(500, "Analysis failed")
        /\ pc' = "done"
        /\ UNCHANGED <<conVars, request, rcontent, fetched, projects, idx, project_context,
                       ranalysis, results, logVars, others>>

\* lines 145 and 164-166: analyze raises; the project is skipped
AnalyzeAllRaises ==
    \E answer \in ServiceAnswers :
        /\ pc = "analyze_all"
        /\ analyze(answer).raised # ""
        /\ trace' = Append(trace, Ev("analyze", project_info.name, FALSE, "",
                                     rcontent.content))
        /\ project_context' = None
        /\ pc' = "loop"
        /\ idx' = idx + 1
        /\ UNCHANGED <<conVars, request, rcontent, fetched, projects, ranalysis, results,
                       response, logVars, others>>

\* lines 158-162, log_review returns
LogAll ==
    /\ pc = "log_all"
    /\ logs' = [logs EXCEPT ![project_info.name] =
                    log_review(logs[project_info.name], project_info.name, now,
                               rcontent, ranalysis)]
    /\ logged' = logged \cup {<<project_info.name, Day(now)>>}
    /\ calls' = calls + 1
    /\ trace' = Append(trace, Ev("log", project_info.name, TRUE, ranalysis.relevance,
                                 rcontent.content))
    /\ ranalysis' = None
    /\ pc' = "loop"
    /\ idx' = idx + 1
    /\ UNCHANGED <<conVars, now, request, rcontent, fetched, projects, project_context,
                   results, response, others>>

\* lines 158-162, log_review raises: pass
LogAllRaises ==
    /\ pc = "log_all"
    /\ calls' = calls + 1
    /\ trace' = Append(trace, Ev("log", project_info.name, FALSE, ranalysis.relevance,
                                 rcontent.content))
    /\ ranalysis' = None
    /\ pc' = "loop"
    /\ idx' = idx + 1
    /\ UNCHANGED <<conVars, logs, now, logged, request, rcontent, fetched, projects,
                   project_context, results, response, others>>

\* lines 168-177: sort and return
ReturnAll ==
    /\ pc = "loop" /\ idx > Len(projects)
    /\ results' = sort_results(results)
    /\ response' = [status |-> 200, url |-> request.url, title |-> rcontent.title,
                    content_type |-> rcontent.content_type,
                    results |-> sort_results(results)]
    /\ pc' = "done"
    /\ UNCHANGED <<conVars, request, rcontent, fetched, projects, idx, project_context,
                   ranalysis, trace, logVars, others>>

NextReview ==
    \/ Fetch
    \/ LoadContext
    \/ AnalyzeSingle
    \/ LogSingle
    \/ LogSingleRaises
    \/ ListAll
    \/ LoadContextAll
    \/ AnalyzeAllReturns
    \/ AnalyzeAllRaises
    \/ LogAll
    \/ LogAllRaises
    \/ ReturnAll

SpecReview == InitReview /\ [][NextReview]_vars

\* ----------------------------------------------------- claims on SpecReview
AllMode == request.project = "all"
\* the all-projects request has returned its response
AllDone == pc = "done" /\ AllMode /\ idx > 0
Events(op) == {k \in 1..Len(trace) : trace[k].op = op}
\* position of a project in the listing
PosOf(name) == CHOOSE i \in 1..Len(projects) : projects[i].name = name

\* ------------------------------------------------------------------- C2
\* C2: the results of an all-projects review are the HIGH and MEDIUM verdicts
\* only, every HIGH entry before every MEDIUM entry, and entries of equal
\* relevance in listing order.
C2_RankedResults ==
    AllDone =>
        LET rs == response.results
            kept == {k \in Events("analyze") : trace[k].rel \in {"high", "medium"}}
        IN  /\ Len(rs) = Cardinality(kept)
            /\ \A k \in kept : \E i \in 1..Len(rs) :
                   rs[i].project = trace[k].project /\ rs[i].relevance = trace[k].rel
            /\ \A i \in 1..Len(rs) : rs[i].relevance # "low"
            /\ \A i, j \in 1..Len(rs) :
                   i < j => ~(rs[i].relevance = "medium" /\ rs[j].relevance = "high")
            /\ \A i, j \in 1..Len(rs) :
                   (i < j /\ rs[i].relevance = rs[j].relevance)
                       => PosOf(rs[i].project) < PosOf(rs[j].project)

\* a MEDIUM verdict listed before a HIGH one was moved behind it, and two
\* entries of equal relevance were returned
C2_Witness ==
    /\ AllDone
    /\ \E i, j \in 1..Len(response.results) :
           i < j /\ PosOf(response.results[i].project) > PosOf(response.results[j].project)
    /\ \E i, j \in 1..Len(response.results) :
           i < j /\ response.results[i].relevance = response.results[j].relevance

\* ------------------------------------------------------------------- C3
\* C3: once the projects are listed, no failure of one project ends the
\* request: the response is a success, every listed project was loaded,
\* every project with context was analysed, and every HIGH or MEDIUM
\* verdict of a project that did not fail is in the results.
C3_FailureIsolated ==
    /\ (AllMode /\ idx > 0 /\ response # None) => response.status = 200
    /\ AllDone =>
          /\ \A i \in 1..Len(projects) :
                \E k \in Events("load") :
                    /\ trace[k].project = projects[i].name
                    /\ trace[k].text # <<>> =>
                           \E m \in Events("analyze") :
                               m > k /\ trace[m].project = projects[i].name
          /\ \A m \in Events("analyze") :
                (trace[m].ok /\ trace[m].rel \in {"high", "medium"}) =>
                    \E i \in 1..Len(response.results) :
                        response.results[i].project = trace[m].project

\* the analysis of one project failed and a project listed after it was
\* analysed and returned
C3_Witness ==
    /\ AllDone
    /\ \E k, m \in Events("analyze") :
           /\ k < m /\ ~trace[k].ok /\ trace[m].ok
           /\ \E i \in 1..Len(response.results) :
                  response.results[i].project = trace[m].project

\* ------------------------------------------------------------------- C4
FailedLogs == {k \in Events("log") : ~trace[k].ok}

\* C4: a log write that raises never fails the request; the response carries
\* the relevance, insights and suggestions of the analysis.
C4_LogFailureNotFatal ==
    /\ (FailedLogs # {} /\ response # None) => response.status = 200
    /\ (pc = "done" /\ ~AllMode /\ FailedLogs # {}) =>
          /\ \E m \in Events("analyze") : response.relevance = trace[m].rel
          /\ response.insights = ranalysis.insights
          /\ response.suggestions = ranalysis.suggestions
    /\ AllDone =>
          \A k \in FailedLogs : \E i \in 1..Len(response.results) :
              /\ response.results[i].project = trace[k].project
              /\ response.results[i].relevance = trace[k].rel

\* a single-project request has returned after its log write raised
C4_Witness == pc = "done" /\ ~AllMode /\ FailedLogs # {}

\* ------------------------------------------------------------------- C6
\* C6: a project whose three documents are all absent is never analysed nor
\* logged; in single-project mode the request is rejected with status 400,
\* in all-projects mode the loop goes on to the next project.
C6_NoContextNoAnalysis ==
    /\ \A k \in Events("load") :
          trace[k].text = <<>> =>
              \A m \in 1..Len(trace) :
                  trace[m].project = trace[k].project => trace[m].op = "load"
    /\ (pc = "done" /\ ~AllMode /\ Len(trace) = 1 /\ trace[1].text = <<>>)
          => response.status = 400
    /\ AllDone => \A i \in 1..Len(projects) :
                      \E k \in Events("load") : trace[k].project = projects[i].name

\* an all-projects request skipped a project without context and analysed
\* a project listed after it
C6_Witness ==
    /\ AllDone
    /\ \E k \in Events("load"), m \in Events("analyze") :
           trace[k].text = <<>> /\ k < m

\* ------------------------------------------------------------------- C7
FetchFailed == fetched.raised # ""
FetchBlank == ~FetchFailed /\ \A i \in 1..Len(fetched.value.content) :
                                  fetched.value.content[i] \in {" ", "\t", NL}
CarriesManual == ~request.content.none /\ request.content.text # <<>>
UsedManual == rcontent # None /\ rcontent.title = <<"Manual Content">>

\* C7: manual content replaces the extracted content exactly when the fetch
\* failed or gave blank text and the request carries manual content, and is
\* then what is analysed and logged; a non-blank fetch is used as it is; a
\* failed fetch without manual content is rejected before any other call.
C7_ManualFallback ==
    fetched # None =>
        /\ UsedManual <=> ((FetchFailed \/ FetchBlank) /\ CarriesManual)
        /\ UsedManual =>
              /\ rcontent.content = request.content.text
              /\ \A k \in Events("analyze") \cup Events("log") :
                     trace[k].text = request.content.text
        /\ (~FetchFailed /\ ~FetchBlank) => rcontent = fetched.value
        /\ (FetchFailed /\ ~CarriesManual) =>
              /\ pc = "done"
              /\ response.status = 400
              /\ trace = <<>>

\* the fetch gave blank text, the manual content took its place and was
\* analysed and logged
C7_Witness ==
    /\ fetched # None
    /\ FetchBlank /\ UsedManual
    /\ \E k \in Events("log") : trace[k].ok

\* ------------------------------------------------------------------ C11
IsPrefix(a, b) == Len(a) <= Len(b) /\ SubSeq(b, 1, Len(a)) = a
\* number of entry blocks in a file
EntryBlocks(text) == Cardinality({i \in 1..Len(text) : text[i] = "### ["})

\* C11: every log_review call is append-only: the file of the project is
\* extended (its old content is a prefix of the new), it is the only file
\* that changes, and a call that logs a new (project, day) pair changes the
\* file of that project.
C11_AppendOnly ==
    [][ /\ \A p \in ProjectNames :
              /\ IsPrefix(logs[p].text, logs'[p].text)
              /\ logs[p].exists => logs'[p].exists
        /\ Cardinality({p \in ProjectNames : logs'[p] # logs[p]}) <= 1
        /\ \A p \in ProjectNames :
              logs'[p] # logs[p] => <<p, Day(now)>> \in logged'
      ]_vars

\* a file that already held an entry has received a second one
C11_Witness == \E p \in ProjectNames : EntryBlocks(logs[p].text) >= 2

\* ------------------------------------------------------------------ C12
\* the well-formed JSON objects a response text contains, as spans
ObjectSpans(text) ==
    {sp \in (1..Len(text)) \X (1..Len(text)) :
        /\ sp[1] < sp[2]
        /\ text[sp[1]] = "{" /\ text[sp[2]] = "}"
        /\ json_loads(SubSeq(text, sp[1], sp[2])).ok}
OrEmpty(field) == IF field = Absent THEN <<>> ELSE field

\* C12: for every response text that contains exactly one well-formed JSON
\* object, whose relevance value is valid, with or without text around it,
\* analyze returns a result whose relevance, insights and suggestions are
\* those of that object (a list the object leaves out is empty).
C12_ParsesTheOnlyObject ==
    (analysis_out # None /\ Cardinality(ObjectSpans(response_text)) = 1) =>
        LET sp == CHOOSE x \in ObjectSpans(response_text) : TRUE
            obj == json_loads(SubSeq(response_text, sp[1], sp[2]))
        IN  obj.relevance \in RelevanceLevels =>
              /\ analysis_out.raised = ""
              /\ analysis_out.relevance = obj.relevance
              /\ analysis_out.insights = OrEmpty(obj.insights)
              /\ analysis_out.suggestions = OrEmpty(obj.suggestions)

\* ------------------------------------------------------------------ C13
SingleDone == pc = "done" /\ ~AllMode
NoLogWritten ==
    /\ Events("log") = {}
    /\ calls = 0
    /\ \A p \in ProjectNames : ~logs[p].exists /\ logs[p].text = <<>>
Unfetchable == FetchFailed /\ ~CarriesManual
FailedLoad == \E k \in Events("load") : ~trace[k].ok
FailedAnalysis == \E k \in Events("analyze") : ~trace[k].ok

\* C13: in single-project mode a fetch that fails without manual content
\* and a project that is missing or has no context end the request with
\* status 400, an analysis that fails ends it with status 500, these are the
\* only causes of the two statuses, and in each case nothing was logged.
C13_FailureClasses ==
    SingleDone =>
        /\ Unfetchable => (response.status = 400 /\ NoLogWritten)
        /\ FailedLoad => (response.status = 400 /\ NoLogWritten)
        /\ FailedAnalysis => (response.status = 500 /\ NoLogWritten)
        /\ response.status = 400 => (Unfetchable \/ FailedLoad)
        /\ response.status = 500 => FailedAnalysis
        /\ response.status \in {200, 400, 500}

\* a single-project request whose content and context were obtained has
\* ended on a failed analysis
C13_Witness ==
    /\ SingleDone /\ FailedAnalysis
    /\ rcontent # None /\ project_context # None
    /\ response.status = 500

\* ------------------------------------------------------------------ C14
SingleSuccess == SingleDone /\ response.status = 200
\* entry blocks in the log files of the projects other than the reviewed one
OtherBlocks ==
    {p \in ProjectNames \ {request.project} :
        logs[p].exists \/ EntryBlocks(logs[p].text) > 0}

\* C14 as stated: every successful single-project review has appended
\* exactly one entry block to the log of the reviewed project and none to
\* another log; the response names the requested project and a relevance of
\* high, medium or low.
C14_SuccessLogsOneEntry ==
    SingleSuccess =>
        /\ EntryBlocks(logs[request.project].text) = 1
        /\ OtherBlocks = {}
        /\ response.project = request.project
        /\ response.relevance \in RelevanceLevels

\* C14 amended: a successful single-project review has appended exactly one
\* entry block to the log of the reviewed project when its log write
\* returned, whatever the relevance, and none when the log write raised; no
\* other log is touched; the response names the requested project and a
\* relevance of high, medium or low.
C14_SuccessLogsOneEntryUnlessWriteFails ==
    SingleSuccess =>
        /\ Cardinality(Events("log")) = 1
        /\ EntryBlocks(logs[request.project].text) = IF FailedLogs = {} THEN 1 ELSE 0
        /\ OtherBlocks = {}
        /\ response.project = request.project
        /\ response.relevance \in RelevanceLevels

\* a review with a LOW verdict has succeeded and its entry is in the log
C14_Witness ==
    /\ SingleSuccess /\ FailedLogs = {}
    /\ response.relevance = "low"
    /\ EntryBlocks(logs[request.project].text) = 1

\* --------------------------------------------------------- SpecConcurrent
\* Requests served by one event loop.  review_url is a coroutine: another
\* request can run only while this one is suspended at an await (routes.py
\* 54, 91, 104); from the return of analyze to the return of the response
\* (routes.py:108-124) there is no await, and log_review is a plain function,
\* so its read of the file and its write are one step.
ConRequests == 1..MaxRequests
ReqTitles == <<"post1", "post2", "post3", "post4">>
ConProject == "p1"
ConContent(r) == [title |-> <<ReqTitles[r]>>, url |-> <<"http://u">>,
                  content_type |-> "article", content |-> <<"body">>]

InitConcurrent ==
    /\ rpc = [r \in ConRequests |-> "fetch"]
    /\ rverdict = [r \in ConRequests |-> None]
    /\ rorder = <<>>
    /\ LogIdle /\ AnIdle /\ DetIdle /\ CtxIdle /\ FetIdle /\ RevIdle

conOthers == <<anVars, detVars, ctxVars, fetVars, revVars>>

\* routes.py:53-76: the fetch returns, or the request is rejected
ConFetch(r) ==
    \E ok \in BOOLEAN :
        /\ rpc[r] = "fetch"
        /\ rpc' = [rpc EXCEPT ![r] = IF ok THEN "load" ELSE "done"]
        /\ UNCHANGED <<rverdict, rorder, logVars, conOthers>>

\* routes.py:89-100: the context is loaded, or the request is rejected
ConLoad(r) ==
    \E ok \in BOOLEAN :
        /\ rpc[r] = "load"
        /\ rpc' = [rpc EXCEPT ![r] = IF ok THEN "analyze" ELSE "done"]
        /\ UNCHANGED <<rverdict, rorder, logVars, conOthers>>

\* routes.py:102-106: analyze returns a verdict
ConAnalyze(r) ==
    \E a \in LogAnalyses :
        /\ rpc[r] = "analyze"
        /\ rpc' = [rpc EXCEPT ![r] = "log"]
        /\ rverdict' = [rverdict EXCEPT ![r] = a]
        /\ UNCHANGED <<rorder, logVars, conOthers>>

\* routes.py:102-106: analyze raises
ConAnalyzeRaises(r) ==
    /\ rpc[r] = "analyze"
    /\ rpc' = [rpc EXCEPT ![r] = "done"]
    /\ UNCHANGED <<rverdict, rorder, logVars, conOthers>>

\* every request builds its entry against the file as it was at start-up
ConLogStaleCopy(r) ==
    /\ rpc[r] = "log"
    /\ logs' = [logs EXCEPT ![ConProject] =
                    log_review(NoFile, ConProject, now, ConContent(r), rverdict[r])]
    /\ logged' = logged \cup {<<ConProject, Day(now)>>}
    /\ calls' = calls + 1
    /\ rorder' = Append(rorder, [req |-> r, t |-> now])
    /\ rpc' = [rpc EXCEPT ![r] = "done"]
    /\ UNCHANGED <<now, rverdict, conOthers>>

\* routes.py:108-124: log_review returns and the response is returned
ConLog(r) ==
    /\ rpc[r] = "log"
    /\ logs' = [logs EXCEPT ![ConProject] =
                    log_review(logs[ConProject], ConProject, now, ConContent(r),
                               rverdict[r])]
    /\ logged' = logged \cup {<<ConProject, Day(now)>>}
    /\ calls' = calls + 1
    /\ rorder' = Append(rorder, [req |-> r, t |-> now])
    /\ rpc' = [rpc EXCEPT ![r] = "done"]
    /\ UNCHANGED <<now, rverdict, conOthers>>

\* routes.py:108-124: log_review raises before the write
ConLogRaises(r) ==
    /\ rpc[r] = "log"
    /\ calls' = calls + 1
    /\ rpc' = [rpc EXCEPT ![r] = "done"]
    /\ UNCHANGED <<logs, now, logged, rverdict, rorder, conOthers>>

\* time passes while requests are suspended
ConTick ==
    /\ now < MaxNow
    /\ now' = now + 1
    /\ UNCHANGED <<logs, logged, calls, conVars, conOthers>>

NextConcurrent ==
    \/ \E r \in ConRequests : ConFetch(r)
    \/ \E r \in ConRequests : ConLoad(r)
    \/ \E r \in ConRequests : ConAnalyze(r)
    \/ \E r \in ConRequests : ConAnalyzeRaises(r)
    \/ \E r \in ConRequests : ConLog(r)
    \/ \E r \in ConRequests : ConLogRaises(r)
    \/ ConTick

SpecConcurrent == InitConcurrent /\ [][NextConcurrent]_vars

\* ------------------------------------------------------------------ C15
\* the days on which a request logged
ConDays == {Day(rorder[k].t) : k \in 1..Len(rorder)}
\* the entry block of the k-th log_review call, as written to a file that
\* needs no header
EntryBlock(k) ==
    Join(entry_parts([exists |-> TRUE, text |-> <<"## ", DateStr(rorder[k].t)>>],
                     ConProject, rorder[k].t, ConContent(rorder[k].req),
                     rverdict[rorder[k].req]), <<NL>>)
\* the first position at which a pattern occurs in a text
FirstAt(pattern, text) ==
    CHOOSE i \in 1..Len(text) :
        /\ i + Len(pattern) - 1 <= Len(text)
        /\ SubSeq(text, i, i + Len(pattern) - 1) = pattern
        /\ \A j \in 1..(i - 1) :
              ~(/\ j + Len(pattern) - 1 <= Len(text)
                /\ SubSeq(text, j, j + Len(pattern) - 1) = pattern)

\* C15: whatever the interleaving of the requests of one process that log
\* to the same project, the file holds one entry block per log_review call
\* that returned, each block whole and in call order, and when all of them
\* logged on the same day the file holds one header line for that day.
C15_InterleavedLogsIntact ==
    LET text == logs[ConProject].text
    IN  /\ EntryBlocks(text) = Len(rorder)
        /\ \A k \in 1..Len(rorder) : Contains(EntryBlock(k), text)
        /\ \A k, m \in 1..Len(rorder) :
              k < m => FirstAt(EntryBlock(k), text) < FirstAt(EntryBlock(m), text)
        /\ \A d \in ConDays :
              ConDays = {d} => HeaderLines(text, d) = 1

\* the request that arrived second logged first, the other then logged on
\* the same day
C15_Witness ==
    /\ Len(rorder) >= 2
    /\ rorder[1].req > rorder[2].req
    /\ Cardinality(ConDays) = 1
    /\ \A r \in ConRequests : rpc[r] = "done"

\* ------------------------------------------------------------------ C16
IsNotNone(o) == ~o.none
\* the documents of the loaded context in section order, with their headers
Sections == << [header |-> SpecHeader, doc |-> ctx_out.spec],
               [header |-> PlanHeader, doc |-> ctx_out.build_plan],
               [header |-> IdeasHeader, doc |-> ctx_out.ideas] >>
\* the combined context is the serialization of the documents that are there
SerializedBy(There(_)) ==
    LET out == combined.text
        in == {i \in 1..3 : There(Sections[i].doc)}
        size(i) == Len(Sections[i].header) + Len(Sections[i].doc.text)
        total == (IF 1 \in in THEN size(1) ELSE 0) + (IF 2 \in in THEN size(2) ELSE 0)
                 + (IF 3 \in in THEN size(3) ELSE 0)
    IN  IF in = {} THEN out = NoContextSentinel
        ELSE /\ \A i \in in : Contains(Sections[i].header \o Sections[i].doc.text, out)
             /\ \A i \in (1..3) \ in : ~Contains(Sections[i].header, out)
             /\ \A i, j \in in :
                   i < j => FirstAt(Sections[i].header, out) < FirstAt(Sections[j].header, out)
             /\ Cardinality({k \in 1..Len(out) : out[k] = "---"}) = Cardinality(in) - 1
             /\ Len(out) = total + (Cardinality(in) - 1) * Len(SectionMarker)

\* C16 as stated: the combined context is the sentinel when spec, build plan
\* and ideas are all absent (None), and otherwise the sections of the
\* documents that are present, in the order spec, build plan, ideas, joined
\* by the section marker.
C16_CombinedByPresence == ~combined.none => SerializedBy(IsNotNone)

\* C16 amended: the same with "present" read as "has non-empty text"; a
\* document whose text is empty is skipped like an absent one.
C16_CombinedByNonEmptyText == ~combined.none => SerializedBy(Truthy)

\* build plan absent, spec and ideas present with different texts: two
\* sections and one marker
C16_Witness ==
    /\ ~combined.none
    /\ Truthy(ctx_out.spec) /\ ctx_out.build_plan.none /\ Truthy(ctx_out.ideas)
    /\ ctx_out.spec.text # ctx_out.ideas.text
    /\ Contains(SectionMarker, combined.text)

\* ------------------------------------------------------ the video strategy
VideoBudget == 15000
VideoMarker == <<NL, NL, "[Transcript truncated...]">>
VideoPlaceholderTitle == <<"YouTube Video">>
TitleSuffix == " - YouTube"

\* URL tokens that stand for a run of at least 11 identifier characters
IdTokens == {"dQw4w9WgXcQ", "dQw4w9WgXcQ_more"}
\* the first 11 characters of such a run
IdOf(tok) == "dQw4w9WgXcQ"

\* re.search of one pattern: the tokens of the pattern followed by an
\* identifier run, anywhere in the URL
search_id(pattern, u) ==
    LET n == Len(pattern)
        at == {i \in 1..Len(u) :
                  /\ i + n <= Len(u)
                  /\ SubSeq(u, i, i + n - 1) = pattern
                  /\ u[i + n] \in IdTokens}
    IN  IF at = {} THEN Absent
        ELSE IdOf(u[(CHOOSE i \in at : \A j \in at : i <= j) + n])

\* ContentFetcher._extract_youtube_id: the identifier or Absent (None)
_extract_youtube_id(u) ==
    LET watch == search_id(<<"youtube.com", "/", "watch?v=">>, u)
        short == search_id(<<"youtu.be", "/">>, u)
        embed == search_id(<<"youtube.com", "/", "embed/">>, u)
        v     == search_id(<<"youtube.com", "/", "v/">>, u)
    IN  IF watch # Absent \/ short # Absent
        THEN (IF watch = Absent THEN short ELSE watch)
        ELSE IF embed # Absent THEN embed
        ELSE v

\* re.sub(r"\s*-\s*YouTube\s*$", "", title)
remove_suffix(title) ==
    LET t == rstrip(title)
    IN  IF t # <<>> /\ t[Len(t)] = TitleSuffix
        THEN rstrip(SubSeq(t, 1, Len(t) - 1)) ELSE title

\* ContentFetcher._get_youtube_title: answer is the site's answer to the
\* page request, [status, title]; the status is not looked at
_get_youtube_title(answer) ==
    IF answer.status = "neterr" THEN VideoPlaceholderTitle
    ELSE IF answer.title.none THEN VideoPlaceholderTitle
    ELSE strip(remove_suffix(answer.title.text))

\* lines 97-104: the transcript text or the inline marker
transcript_text(answer) ==
    IF answer.raised \in {"TranscriptsDisabled", "NoTranscriptFound"}
    THEN <<"[Transcript not available: ", "str(e)", "]">>
    ELSE IF answer.raised # ""
    THEN <<"[Error fetching transcript: ", "str(e)", "]">>
    ELSE Join(answer.entries, <<" ">>)

\* the title fetched after the transcript, without the identifier check
_fetch_youtube_unchecked(u, answer) ==
    [raised |-> "", url |-> u, title |-> _get_youtube_title(answer.page),
     content |-> truncate(transcript_text(answer.transcript), VideoBudget, VideoMarker),
     content_type |-> "youtube", net |-> <<"transcript", "page">>]
\* ContentFetcher._fetch_youtube; net is the history of its network calls
_fetch_youtube(u, answer) ==
    IF _extract_youtube_id(u) = Absent
    THEN [raised |-> "ValueError", url |-> u, title |-> <<>>, content |-> <<>>,
          content_type |-> NoType, net |-> <<>>]
    ELSE [raised |-> "", url |-> u, title |-> _get_youtube_title(answer.page),
          content |-> truncate(transcript_text(answer.transcript),
                               VideoBudget, VideoMarker),
          content_type |-> "youtube", net |-> <<"page", "transcript">>]

\* ------------------------------------------------ the social-post strategy
nitter_instances == <<"nitter.net", "nitter.privacydev.net">>
PostPlaceholderTitle == <<"X/Twitter Post">>
PostPlaceholder ==
    <<"[Could not fetch tweet content. The post may be protected or require authentication.]">>

\* urlparse(url).path: from the "/" that ends the netloc to "?" or "#"
url_path(u) ==
    LET start == 3 + Len(netloc(u))
        rest == SubSeq(u, start, Len(u))
        ends == {i \in 1..Len(rest) : rest[i] \in {"?", "#"}}
    IN  IF rest = <<>> \/ rest[1] # "/" THEN <<>>
        ELSE IF ends = {} THEN rest
        ELSE SubSeq(rest, 1, (CHOOSE i \in ends : \A j \in ends : i <= j) - 1)

nitter_url(i, u) == <<"https:", "//", nitter_instances[i]>> \o url_path(u)

\* lines 156-172: content and title after the direct request
direct_content(answer) ==
    IF answer.status = "200" /\ ~answer.og_desc.none THEN answer.og_desc.text ELSE <<>>
direct_title(answer) ==
    IF answer.status = "200" /\ Truthy(answer.og_title)
    THEN answer.og_title.text ELSE PostPlaceholderTitle

RECURSIVE mirror_loop(_, _, _, _)
\* lines 176-192, from mirror i on: the loop ends at the first mirror that
\* answers 200 with a .tweet-content element (an element is truthy whatever
\* its text); net is the history of the requests made
mirror_loop(i, u, answers, net) ==
    IF i > Len(nitter_instances) THEN [content |-> <<>>, net |-> net]
    ELSE IF answers[i].status = "200" /\ ~answers[i].tweet.none
    THEN [content |-> strip(answers[i].tweet.text),
          net |-> Append(net, nitter_url(i, u))]
    ELSE mirror_loop(i + 1, u, answers, Append(net, nitter_url(i, u)))

\* ContentFetcher._fetch_twitter
_fetch_twitter(u, answer) ==
    LET direct == direct_content(answer.direct)
        ladder == IF direct = <<>> THEN mirror_loop(1, u, answer.mirrors, <<u>>)
                  ELSE [content |-> direct, net |-> <<u>>]
    IN  [raised |-> "", url |-> u, title |-> direct_title(answer.direct),
         content |-> IF ladder.content = <<>> THEN PostPlaceholder ELSE ladder.content,
         content_type |-> "twitter", net |-> ladder.net]

\* ------------------------------------------------------------ SpecFetcher
\* ContentFetcher.fetch: the strategy of the detected content type
fetch(u, answer) ==
    LET content_type == detect_content_type(u)
    IN  IF content_type = "youtube" THEN _fetch_youtube(u, answer)
        ELSE IF content_type = "twitter" THEN _fetch_twitter(u, answer)
        ELSE _fetch_article(u, answer)

\* n characters
Chars(n) == [i \in 1..n |-> "a"]

VideoUrls ==
    { <<"https:", "//", "www.", "youtube.com", "/", "watch?v=", "dQw4w9WgXcQ">>,
      <<"https:", "//", "youtu.be", "/", "dQw4w9WgXcQ_more">>,
      <<"https:", "//", "youtube.com", "/", "embed/", "dQw4w9WgXcQ">>,
      <<"https:", "//", "youtube.com", "/", "v/", "dQw4w9WgXcQ">>,
      <<"https:", "//", "youtube.com", "/", "watch?v=", "short">>,
      <<"https:", "//", "youtube.com", "/", "shorts/", "dQw4w9WgXcQ">>,
      <<"https:", "//", "www.", "youtube.com", "/", "playlist?list=">> }
PostUrls ==
    { <<"https:", "//", "x.com", "/", "user/status/1">>,
      <<"https:", "//", "twitter.com", "/", "user/status/1", "?", "s=20">> }
FetcherUrls == {ArticleUrl} \cup VideoUrls \cup PostUrls

\* article pages around the budget: the text in the first region or the body
LongTexts ==
    { Chars(ArticleBudget), Chars(ArticleBudget + 1),
      <<" ">> \o Chars(ArticleBudget) \o <<" ">>,
      Chars(ArticleBudget - 1) \o <<" ", NL, " ">> \o Chars(5) }
FetcherPages ==
    {[title |-> t, og_title |-> NoneText,
      regions |-> [i \in 1..Len(Selectors) |-> IF i = 1 THEN r ELSE NoneText],
      body |-> b] :
        t \in Titles,
        r \in {NoneText, Some(<<"m">>)} \cup {Some(x) : x \in LongTexts},
        b \in OptTexts \cup {Some(x) : x \in LongTexts}}
FetcherPageAnswers ==
    {[status |-> "200", page |-> pg] : pg \in FetcherPages}
    \cup {[status |-> st, page |-> NoPage] : st \in {"404", "500", "neterr"}}

VideoTitles == {NoneText, Some(<<>>), Some(<<TitleSuffix>>),
                Some(<<"T", " ", TitleSuffix, " ">>)}
VideoPageAnswers ==
    {[status |-> "neterr", title |-> NoneText]}
    \cup {[status |-> st, title |-> t] : st \in {"200", "404"}, t \in VideoTitles}
EntryLists ==
    { <<>>, << <<"a">> >>, << <<"a">>, <<" ", "b">> >>,
      << Chars(VideoBudget) >>, << Chars(VideoBudget + 1) >>,
      << Chars(7500), Chars(VideoBudget - 7501) >>,
      << Chars(7500), Chars(VideoBudget - 7500) >> }
TranscriptAnswers ==
    {[raised |-> e, entries |-> <<>>] :
        e \in {"TranscriptsDisabled", "NoTranscriptFound", "VideoUnavailable"}}
    \cup {[raised |-> "", entries |-> es] : es \in EntryLists}
VideoAnswers == [page : VideoPageAnswers, transcript : TranscriptAnswers]

MetaOpts == {NoneText, Some(<<>>), Some(<<"tweet">>)}
DirectAnswers ==
    {[status |-> st, og_desc |-> NoneText, og_title |-> NoneText] :
        st \in {"404", "neterr"}}
    \cup [status : {"200"}, og_desc : MetaOpts, og_title : {NoneText, Some(<<>>), Some(<<"T">>)}]
MirrorAnswers ==
    {[status |-> st, tweet |-> NoneText] : st \in {"503", "neterr"}}
    \cup [status : {"200"},
          tweet : {NoneText, Some(<<>>), Some(<<" ">>), Some(<<" ", "mirrored", " ">>)}]
PostAnswers == [direct : DirectAnswers,
                mirrors : [1..Len(nitter_instances) -> MirrorAnswers]]

\* what the network can answer to the strategy of a URL
FetcherAnswers(u) ==
    IF detect_content_type(u) = "youtube" THEN VideoAnswers
    ELSE IF detect_content_type(u) = "twitter" THEN PostAnswers
    ELSE FetcherPageAnswers

InitFetcher ==
    /\ url \in FetcherUrls
    /\ detected = NoType
    /\ manual_type = NoType
    /\ served_page \in FetcherAnswers(url)
    /\ fetch_out = None
    /\ LogIdle /\ ConIdle /\ AnIdle /\ CtxIdle /\ RevIdle

\* one call of fetch(url)
FetchUrl ==
    /\ fetch_out = None
    /\ detected' = detect_content_type(url)
    /\ fetch_out' = fetch(url, served_page)
    /\ UNCHANGED <<conVars, url, manual_type, served_page, logVars, anVars, ctxVars, revVars>>

NextFetcher == FetchUrl

SpecFetcher == InitFetcher /\ [][NextFetcher]_vars

\* ------------------------------------------------------------------ C17
FetchReturned == fetch_out # None /\ fetch_out.raised = ""
\* out is text cut to the budget with one marker behind it, or text itself
CutTo(budget, marker, text, out) ==
    IF Len(text) > budget
    THEN /\ Len(out) = budget + Len(marker)
         /\ SubSeq(out, 1, budget) = SubSeq(text, 1, budget)
         /\ SubSeq(out, budget + 1, Len(out)) = marker
    ELSE /\ out = text
         /\ \A i \in 1..Len(out) : out[i] # marker[Len(marker)]

\* C17: the content of a fetched article is its whitespace-normalized text,
\* and the content of a fetched video its transcript text, returned as it
\* is when it has at most budget characters (10000, 15000) and otherwise cut
\* to its first budget characters followed by one truncation marker.
C17_TruncatedToBudget ==
    FetchReturned =>
        /\ detected = "article" =>
              CutTo(ArticleBudget, ArticleMarker,
                    normalize(article_text(served_page.page)), fetch_out.content)
        /\ detected = "youtube" =>
              CutTo(VideoBudget, VideoMarker,
                    transcript_text(served_page.transcript), fetch_out.content)

\* an article whose text lost whitespace in normalization and was still
\* over the budget has been cut
C17_Witness ==
    /\ FetchReturned /\ detected = "article"
    /\ Len(normalize(article_text(served_page.page))) < Len(article_text(served_page.page))
    /\ Len(normalize(article_text(served_page.page))) > ArticleBudget
    /\ Len(fetch_out.content) = ArticleBudget + Len(ArticleMarker)

\* ------------------------------------------------------------------ C18
PostFetched == FetchReturned /\ detected = "twitter"
\* a mirror yields non-empty content: 200, a content element, text in it
Yields(m) == m.status = "200" /\ ~m.tweet.none /\ strip(m.tweet.text) # <<>>
YieldingMirrors == {i \in 1..Len(nitter_instances) : Yields(served_page.mirrors[i])}
DirectEmpty == direct_content(served_page.direct) = <<>>
\* the number of mirrors the ladder has to contact
MirrorsToContact ==
    IF ~DirectEmpty THEN 0
    ELSE IF YieldingMirrors = {} THEN Len(nitter_instances)
    ELSE CHOOSE i \in YieldingMirrors : \A j \in YieldingMirrors : i <= j

\* C18: after the direct request the mirrors are contacted only when the
\* direct fetch yielded empty content, in list order with the path of the
\* URL, each mirror that errors, answers non-200, has no content element or
\* yields empty text being followed by the next, up to and including the
\* first mirror that yields non-empty content.
C18_MirrorLadder ==
    PostFetched =>
        fetch_out.net = <<url>> \o [i \in 1..MirrorsToContact |-> nitter_url(i, url)]

\* ------------------------------------------------------------------ C19
\* C19: the fetch of a social-post URL never raises: it returns a
\* FetchedContent of the social-post type with non-empty content, which is
\* the placeholder exactly when neither the direct fetch nor any mirror
\* yields content.
C19_PlaceholderIffNothingYields ==
    (fetch_out # None /\ detected = "twitter") =>
        /\ fetch_out.raised = ""
        /\ fetch_out.content_type = "twitter"
        /\ fetch_out.content # <<>>
        /\ fetch_out.content = PostPlaceholder
              <=> (DirectEmpty /\ YieldingMirrors = {})

\* ------------------------------------------------------------------ C20
\* the URL shapes that carry a video identifier
IdPatterns == { <<"youtube.com", "/", "watch?v=">>, <<"youtu.be", "/">>,
                <<"youtube.com", "/", "embed/">>, <<"youtube.com", "/", "v/">> }
CarriesId(u) == \E p \in IdPatterns, t \in IdTokens : Contains(p \o <<t>>, u)
TitleFetchFailed == served_page.page.status = "neterr"
NoTranscript == served_page.transcript.raised \in {"TranscriptsDisabled", "NoTranscriptFound"}

\* C20: the fetch of a video URL raises exactly when the URL carries no
\* video identifier, and then no network call was made; otherwise it returns
\* a FetchedContent of the video type, with the placeholder title when the
\* title request failed and with the inline marker as content when the
\* transcript is disabled or missing.
C20_VideoSoftFails ==
    (fetch_out # None /\ detected = "youtube") =>
        /\ fetch_out.raised # "" <=> ~CarriesId(url)
        /\ fetch_out.raised # "" => (fetch_out.raised = "ValueError" /\ fetch_out.net = <<>>)
        /\ fetch_out.raised = "" =>
              /\ fetch_out.content_type = "youtube"
              /\ fetch_out.url = url
              /\ TitleFetchFailed => fetch_out.title = VideoPlaceholderTitle
              /\ NoTranscript =>
                     fetch_out.content = <<"[Transcript not available: ", "str(e)", "]">>

\* a video whose title request failed and whose transcript is disabled was
\* returned with the placeholder title and the marker
C20_Witness ==
    /\ FetchReturned /\ detected = "youtube"
    /\ TitleFetchFailed /\ NoTranscript
    /\ fetch_out.title = VideoPlaceholderTitle
    /\ fetch_out.content[1] = "[Transcript not available: "

\* ------------------------------------------------------------------ C21
\* the place of a step within the processing of one project
StepRank(op) == IF op = "load" THEN 1 ELSE IF op = "analyze" THEN 2 ELSE 3

\* C21: in an all-projects request the loader, analyzer and logger calls are
\* made project by project in listing order: a call for a project listed
\* later never precedes a call for a project listed earlier, and the calls
\* for one project are its load, then its analysis, then its log write, each
\* at most once.
C21_SequentialInListingOrder ==
    (AllMode /\ idx > 0) =>
        /\ \A k \in 1..Len(trace) :
              \E i \in 1..Len(projects) : projects[i].name = trace[k].project
        /\ \A k, m \in 1..Len(trace) :
              k < m =>
                 /\ PosOf(trace[k].project) <= PosOf(trace[m].project)
                 /\ trace[k].project = trace[m].project
                        => StepRank(trace[k].op) < StepRank(trace[m].op)
        /\ \A k \in Events("analyze") :
              \E j \in Events("load") : j < k /\ trace[j].project = trace[k].project
        /\ \A k \in Events("log") :
              \E j \in Events("analyze") : j < k /\ trace[j].project = trace[k].project

\* two projects were each loaded, analysed and logged, one after the other
C21_Witness ==
    /\ AllDone
    /\ \E k, m \in Events("log") :
           /\ trace[k].project # trace[m].project
           /\ \E j \in Events("load") : k < j /\ j < m /\ trace[j].project = trace[m].project

\* ------------------------------------------------------------------ C22
Retained == {k \in Events("analyze") : trace[k].ok /\ trace[k].rel \in {"high", "medium"}}
LogsOf(name) == {k \in Events("log") : trace[k].project = name}

\* C22: in an all-projects request exactly one log write is attempted for
\* every project whose verdict is HIGH or MEDIUM, right after its analysis,
\* and none for any other project (LOW verdict, no context, failed
\* analysis); the log files hold the entries of the writes that returned and
\* nothing else; no returned result has relevance LOW.
C22_LogIffRetained ==
    (AllMode /\ idx > 0) =>
        /\ \A k \in Events("log") :
              /\ k - 1 \in Retained
              /\ trace[k - 1].project = trace[k].project
              /\ trace[k - 1].rel = trace[k].rel
        /\ \A k \in Retained :
              (k < Len(trace) \/ pc \in {"loop", "done"}) =>
                  Cardinality(LogsOf(trace[k].project)) = 1
        /\ \A p \in ProjectNames :
              /\ EntryBlocks(logs[p].text)
                     = Cardinality({k \in LogsOf(p) : trace[k].ok})
              /\ LogsOf(p) = {} => ~logs[p].exists
        /\ AllDone =>
              /\ Len(response.results) = Cardinality(Events("log"))
              /\ \A i \in 1..Len(response.results) :
                     /\ response.results[i].relevance \in {"high", "medium"}
                     /\ Cardinality(LogsOf(response.results[i].project)) = 1

\* one project got a LOW verdict and no log write, another was retained and
\* logged
C22_Witness ==
    /\ AllDone
    /\ \E k \in Events("analyze") :
           trace[k].ok /\ trace[k].rel = "low" /\ LogsOf(trace[k].project) = {}
    /\ \E k \in Events("log") : trace[k].ok /\ logs[trace[k].project].exists

\* ------------------------------------------------------------------ C23
\* C23: for every URL, the content type review_url gives to manual content
\* is the type detect_content_type returns for the same URL.
C23_ManualTypeIsDetectedType ==
    (detected # NoType /\ manual_type # NoType) => manual_type = detected

\* ------------------------------------------------------------------ C24
\* the entries of a listing that are directories with a name not starting
\* with a dot, in listing order
RECURSIVE VisibleDirs(_)
VisibleDirs(contents) ==
    IF contents = <<>> THEN <<>>
    ELSE (IF contents[1].type = "dir" /\ contents[1].name # ".github"
          THEN <<contents[1]>> ELSE <<>>) \o VisibleDirs(Tail(contents))
DescriptionFailed(answer) == answer.status # "200"
Listed == list_out # None /\ served_listing.status = "200"

\* C24: when the directory listing is answered, list_projects returns one
\* entry for every non-hidden directory of the listing, in listing order,
\* and nothing else; a project whose description request fails is listed
\* with no description, and the description of every other project is the
\* first text line of its own spec.md.
C24_ListingSurvivesDescriptionFailure ==
    Listed =>
        LET dirs == VisibleDirs(served_listing.contents)
            out == list_out.projects
        IN  /\ list_out.raised = ""
            /\ Len(out) = Len(dirs)
            /\ \A i \in 1..Len(dirs) :
                  LET answer == served_listing.desc[dirs[i].name]
                  IN  /\ out[i].name = dirs[i].name
                      /\ out[i].path = dirs[i].path
                      /\ DescriptionFailed(answer) => out[i].description.none
                      /\ ~DescriptionFailed(answer) =>
                            out[i].description =
                                IF answer.text = LongLine
                                THEN Some(SubSeq(LongLine, 1, DescKeep) \o <<"...">>)
                                ELSE Some(<<"a">>)

\* two projects listed: the description request of the first failed, the
\* second has its description
C24_Witness ==
    /\ Listed
    /\ Len(list_out.projects) >= 2
    /\ served_listing.desc[list_out.projects[1].name].status \in {"500", "neterr"}
    /\ list_out.projects[1].description.none
    /\ ~list_out.projects[2].description.none

\* ------------------------------------------------------------------ C25
KnownTypes == {"article", "youtube", "twitter"}
\* the content types written in the entries of a log file
LoggedTypes(text) == {text[i + 1] : i \in {j \in 1..(Len(text) - 1) : text[j] = " | Type: "}}

\* C25: the content in use in a review request, the response of a
\* successful review and every log entry carry one of the content types
\* article, youtube, twitter, never unknown.
C25_NeverUnknownType ==
    /\ rcontent # None => rcontent.content_type \in KnownTypes
    /\ (response # None /\ response.status = 200) => response.content_type \in KnownTypes
    /\ \A p \in ProjectNames : LoggedTypes(logs[p].text) \subseteq KnownTypes

\* manual content for an article URL was reviewed and logged as an article
C25_Witness ==
    /\ SingleSuccess /\ UsedManual
    /\ response.content_type = "article"
    /\ LoggedTypes(logs[request.project].text) = {"article"}

\* ------------------------------------------------------------------ C26
\* the line on which the last entry block of a file starts (0: no entry)
LastEntryLine(text) ==
    LET ls == Lines(text)
        es == {i \in 1..Len(ls) : ls[i] # <<>> /\ ls[i][1] = "### ["}
    IN  IF es = {} THEN 0 ELSE CHOOSE i \in es : \A j \in es : j <= i
\* the lines of a file that are the date header of day d
HeaderAt(text, d) ==
    {i \in 1..Len(Lines(text)) : Lines(text)[i] = <<"## ", DateStr(2 * (d - 1))>>}

\* C26: every call of log_review that writes leaves its entry block below
\* the date-header line of the day of the call, and below no date-header
\* line of a later day; the file only grows and the clock never goes back,
\* so every entry stays below its day's header and above later headers.
C26_EntryBelowItsDayHeader ==
    [][\A p \in ProjectNames :
          logs'[p] # logs[p] =>
              LET e == LastEntryLine(logs'[p].text)
              IN  /\ e > 0
                  /\ \E h \in HeaderAt(logs'[p].text, Day(now)) : h < e
                  /\ \A d \in Days : \A h \in HeaderAt(logs'[p].text, d) :
                         h < e => d <= Day(now)]_vars

====
